---- MODULE Spec2Model ----
(***************************************************************************)
(* Model of the Djaja desktop backend (src-tauri):                         *)
(*   serial.rs  - SerialManager, the registry of open serial ports         *)
(*   server.rs  - ServerState, the supervisor of the companion process     *)
(*   lib.rs     - the command surface and the deferred automatic start     *)
(* Every command is a thread that runs the handler step by step: one step  *)
(* per lock acquisition and per call into the operating system.            *)
(***************************************************************************)
EXTENDS Integers, Sequences, FiniteSets, TLC

\* ---------------------------------------------------------------- bounds
MaxHandles == 2   \* OS serial handles the model lets the OS hand out
MaxSpawns == 2    \* companion processes the model lets the OS spawn
MaxLen == 1       \* longest write buffer
MaxRead == 1      \* largest read buffer_size
MaxStop == 3      \* largest stop_bits value a caller passes (u8)
MaxBits == 9      \* largest data_bits value a caller passes (u8)

\* ------------------------------------------------------------- universes
PortNames == {"COM3", "COM4"}
UiThreads == {"ui1", "ui2"}
AutoThread == "auto"
Threads == UiThreads \cup {AutoThread}
NoThread == "nobody"
NoHandle == 0
NoPid == 0
Bytes == {65, 255}          \* one ASCII byte, one byte that is invalid UTF-8
Replacement == 65533       \* U+FFFD

VARIABLES
    ports,            \* SerialManager.ports: the HashMap, as its set of <<key, value>> entries
    ports_lock,       \* holder of the Mutex around SerialManager.ports
    os_handles,       \* serial handles the OS has open for this program: <<id, name>>
    next_handle,      \* ids handed out so far
    process,          \* ServerState.process: Option<Child>, NoPid is None
    process_lock,     \* holder of the Mutex around ServerState.process
    alive,            \* spawned companion processes that are running
    next_pid,         \* processes spawned so far
    taskkills,        \* pids a running taskkill utility has been aimed at
    kills,            \* termination attempts issued so far, per pid
    dropped,          \* ServerState has been dropped (application teardown)
    target_os,        \* cfg(target_os): "windows" or "unix"
    debug_assertions, \* cfg!(debug_assertions)
    pc,               \* each thread's position
    call,             \* each thread's current (or last) command and its arguments
    ret,              \* what the command returned
    io,               \* OS calls the command has made so far, in order
    port,             \* local `port`: the handle a handler works on
    written,          \* local `written` of write_serial_data
    child             \* local `child` of stop_backend_server

regVars == <<ports, ports_lock, os_handles, next_handle>>
srvVars == <<process, process_lock, alive, next_pid, taskkills, kills, dropped>>
cfgVars == <<target_os, debug_assertions>>
thrVars == <<pc, call, ret, io, port, written, child>>
vars == <<regVars, srvVars, cfgVars, thrVars>>

\* --------------------------------------------------------- return values
\* SerialConfig, without baud_rate, which is handed to the OS as it is
DefaultConfig == [parity |-> "none", stop_bits |-> 1, data_bits |-> 8]
NoCall == [op |-> "none", name |-> "", data |-> <<>>, size |-> 0, config |-> DefaultConfig]
Pending == [kind |-> "pending", msg |-> "", n |-> 0, text |-> <<>>]
Ok(m) == [kind |-> "Ok", msg |-> m, n |-> 0, text |-> <<>>]
OkCount(k) == [kind |-> "Ok", msg |-> "", n |-> k, text |-> <<>>]
OkText(s) == [kind |-> "Ok", msg |-> "", n |-> 0, text |-> s]
Err(m) == [kind |-> "Err", msg |-> m, n |-> 0, text |-> <<>>]

\* The error strings of serial.rs
DuplicateSession == "Port is already open"
NotFound == "Port not found or already closed"
NotOpen == "Port not open"
OpenError == "Failed to open port"
WriteError == "Failed to write to port"
FlushError == "Failed to flush port"
ReadError == "Failed to read from port"
EnumerationError == "available_ports failed"

\* ----------------------------------------------------- HashMap and Mutex
\* a lookup that never finds the key
contains_key_never(m, k) == FALSE

contains_key(m, k) == \E e \in m : e[1] = k

\* HashMap::get_mut: Some(value) or None (NoHandle)
get_mut(m, k) ==
    LET hs == {e[2] : e \in {x \in m : x[1] = k}}
    IN IF hs = {} THEN NoHandle ELSE CHOOSE h \in hs : TRUE

\* an insert that registers nothing
insert_nothing(m, k, v) == m

\* HashMap::insert: the entry under k is replaced
insert(m, k, v) == {e \in m : e[1] # k} \cup {<<k, v>>}

\* a removal that leaves the entry in the map
remove_nothing(m, k) == m

\* HashMap::remove
remove(m, k) == {e \in m : e[1] # k}

\* the values insert or remove drop: their handles are closed by the OS
displaced(m, k) == {<<e[2], e[1]>> : e \in {x \in m : x[1] = k}}

\* a lock that excludes nobody
CanLock_always(holder) == TRUE

\* Mutex::lock goes through only when nobody holds the mutex
CanLock(holder) == holder = NoThread

\* String::from_utf8_lossy: an invalid byte becomes U+FFFD
RECURSIVE from_utf8_lossy(_)
from_utf8_lossy(bs) ==
    IF bs = <<>> THEN <<>>
    ELSE <<(IF Head(bs) < 128 THEN Head(bs) ELSE Replacement)>> \o from_utf8_lossy(Tail(bs))

SeqsUpTo(S, n) == UNION {[1..k -> S] : k \in 0..n}

\* ------------------------------------------------------------------ Init
Init ==
    /\ ports = {}
    /\ ports_lock = NoThread
    /\ os_handles = {}
    /\ next_handle = 0
    /\ process = NoPid
    /\ process_lock = NoThread
    /\ alive = {}
    /\ next_pid = 0
    /\ taskkills = {}
    /\ kills = [p \in 1..MaxSpawns |-> 0]
    /\ dropped = FALSE
    /\ target_os \in {"windows", "unix"}
    /\ debug_assertions \in BOOLEAN
    /\ pc = [t \in Threads |-> IF t = AutoThread THEN "sleep" ELSE "idle"]
    /\ call = [t \in Threads |-> NoCall]
    /\ ret = [t \in Threads |-> Pending]
    /\ io = [t \in Threads |-> <<>>]
    /\ port = [t \in Threads |-> NoHandle]
    /\ written = [t \in Threads |-> 0]
    /\ child = [t \in Threads |-> NoPid]

\* ------------------------------------------------- command entry / return
\* A command is invoked: the thread stands at the handler's first statement.
Invoke(t, c, at) ==
    /\ pc[t] = "idle"
    /\ ~dropped
    /\ pc' = [pc EXCEPT ![t] = at]
    /\ call' = [call EXCEPT ![t] = c]
    /\ ret' = [ret EXCEPT ![t] = Pending]
    /\ io' = [io EXCEPT ![t] = <<>>]
    /\ port' = [port EXCEPT ![t] = NoHandle]
    /\ written' = [written EXCEPT ![t] = 0]
    /\ child' = [child EXCEPT ![t] = NoPid]

\* The handler returns r; locals go out of scope.
Return(t, r) ==
    /\ pc' = [pc EXCEPT ![t] = "idle"]
    /\ ret' = [ret EXCEPT ![t] = r]
    /\ port' = [port EXCEPT ![t] = NoHandle]
    /\ written' = [written EXCEPT ![t] = 0]
    /\ child' = [child EXCEPT ![t] = NoPid]
    /\ UNCHANGED call

Goto(t, at) == pc' = [pc EXCEPT ![t] = at]

\* an OS call is logged with its outcome: <<call, outcome, number>>
Did(t, what, out, n) == io' = [io EXCEPT ![t] = Append(@, <<what, out, n>>)]

\* ================================================================ serial.rs
\* Mutex::lock on SerialManager.ports, the first statement of open, close,
\* write and read. (No handler panics while it holds the mutex, so the
\* poisoned branch of lock() is never taken.)
LockPorts(t) ==
    /\ pc[t] \in {"open_lock", "close_lock", "write_lock", "read_lock"}
    /\ CanLock(ports_lock)
    /\ ports_lock' = t
    /\ Goto(t, CASE pc[t] = "open_lock" -> "open_check"
                 [] pc[t] = "close_lock" -> "close_remove"
                 [] pc[t] = "write_lock" -> "write_get"
                 [] pc[t] = "read_lock" -> "read_get")
    /\ UNCHANGED <<ports, os_handles, next_handle, srvVars, cfgVars>>
    /\ UNCHANGED <<call, ret, io, port, written, child>>

\* a guard that outlives the handler
UnlockPorts_leak(t) == ports_lock' = ports_lock

\* the MutexGuard is dropped when the handler returns
UnlockPorts(t) == ports_lock' = IF ports_lock = t THEN NoThread ELSE ports_lock

\* ---- list_serial_ports: takes no lock, asks the OS
CallList(t) ==
    /\ Invoke(t, [NoCall EXCEPT !.op = "list"], "list_os")
    /\ UNCHANGED <<regVars, srvVars, cfgVars>>

ListOs(t) ==
    /\ pc[t] = "list_os"
    /\ \E ok \in BOOLEAN :
          /\ Did(t, "available_ports", IF ok THEN "Ok" ELSE "Err", 0)
          /\ Return(t, IF ok THEN Ok("ports") ELSE Err(EnumerationError))
    /\ UNCHANGED <<regVars, srvVars, cfgVars>>

\* ---- open_serial_port
\* match config.parity.as_str() { "none" | "odd" | "even" => itself, _ => None }
parity_of(s) ==
    CASE s = "none" -> "none"
      [] s = "odd" -> "odd"
      [] s = "even" -> "even"
      [] OTHER -> "none"

\* match config.stop_bits { 1 => One, 2 => Two, _ => One }
stop_bits_of(n) ==
    CASE n = 1 -> 1
      [] n = 2 -> 2
      [] OTHER -> 1

\* a wildcard arm that falls back to the smallest width
data_bits_low(n) == IF n \in {5, 6, 7, 8} THEN n ELSE 5

\* match config.data_bits { 5 | 6 | 7 | 8 => itself, _ => Eight }
data_bits_of(n) ==
    CASE n = 5 -> 5
      [] n = 6 -> 6
      [] n = 7 -> 7
      [] n = 8 -> 8
      [] OTHER -> 8

\* the settings the builder is given: .data_bits(..).stop_bits(..).parity(..)
settings_of(c) ==
    [parity |-> parity_of(c.parity),
     stop_bits |-> stop_bits_of(c.stop_bits),
     data_bits |-> data_bits_of(c.data_bits)]

\* the configs the UI sends: any string, any small u8
ParityStrings == {"none", "odd", "even", "xyz", "ODD"}
Configs == [parity : ParityStrings, stop_bits : 0..MaxStop, data_bits : 0..MaxBits]

\* the configs used where the registry, not the translation, is explored:
\* the one of the spec's example and one with every field out of range
RegistryConfigs == {DefaultConfig, [parity |-> "xyz", stop_bits |-> 3, data_bits |-> 9]}

CallOpenWith(t, ns, cs) ==
    /\ \E n \in ns, c \in cs :
          Invoke(t, [NoCall EXCEPT !.op = "open", !.name = n, !.config = c], "open_lock")
    /\ UNCHANGED <<regVars, srvVars, cfgVars>>

CallOpen(t) == CallOpenWith(t, PortNames, RegistryConfigs)

\* if ports.contains_key(&port_name) { return Err(..) }
OpenCheck(t) ==
    /\ pc[t] = "open_check"
    /\ IF contains_key(ports, call[t].name)
       THEN /\ Return(t, Err(DuplicateSession))
            /\ UnlockPorts(t)
            /\ UNCHANGED io
       ELSE /\ Goto(t, "open_os")
            /\ UNCHANGED <<ports_lock, call, ret, io, port, written, child>>
    /\ UNCHANGED <<ports, os_handles, next_handle, srvVars, cfgVars>>

\* serialport::new(..).open(): the OS grants a new handle or refuses
OpenOs(t) ==
    /\ pc[t] = "open_os"
    /\ \/ /\ next_handle < MaxHandles
          /\ io' = [io EXCEPT ![t] = Append(@, <<"open", "Ok", next_handle + 1, settings_of(call[t].config)>>)]
          /\ next_handle' = next_handle + 1
          /\ os_handles' = os_handles \cup {<<next_handle + 1, call[t].name>>}
          /\ port' = [port EXCEPT ![t] = next_handle + 1]
          /\ Goto(t, "open_insert")
          /\ UNCHANGED <<ports_lock, call, ret, written, child>>
       \/ /\ io' = [io EXCEPT ![t] = Append(@, <<"open", "Err", 0, settings_of(call[t].config)>>)]
          /\ Return(t, Err(OpenError))
          /\ UnlockPorts(t)
          /\ UNCHANGED <<os_handles, next_handle>>
    /\ UNCHANGED <<ports, srvVars, cfgVars>>

\* ports.insert(port_name.clone(), port); Ok(..)
OpenInsert(t) ==
    /\ pc[t] = "open_insert"
    /\ ports' = insert(ports, call[t].name, port[t])
    /\ os_handles' = os_handles \ displaced(ports, call[t].name)
    /\ Return(t, Ok("opened successfully"))
    /\ UnlockPorts(t)
    /\ UNCHANGED <<next_handle, io, srvVars, cfgVars>>

\* ---- close_serial_port
CallCloseOn(t, ns) ==
    /\ \E n \in ns : Invoke(t, [NoCall EXCEPT !.op = "close", !.name = n], "close_lock")
    /\ UNCHANGED <<regVars, srvVars, cfgVars>>

CallClose(t) == CallCloseOn(t, PortNames)

\* if ports.remove(&port_name).is_some() { Ok } else { Err }
\* the removed Box<dyn SerialPort> is dropped, which closes the handle
CloseRemove(t) ==
    /\ pc[t] = "close_remove"
    /\ ports' = remove(ports, call[t].name)
    /\ os_handles' = os_handles \ displaced(ports, call[t].name)
    /\ IF contains_key(ports, call[t].name)
       THEN /\ Did(t, "close", "Ok", get_mut(ports, call[t].name))
            /\ Return(t, Ok("closed successfully"))
       ELSE /\ Return(t, Err(NotFound))
            /\ UNCHANGED io
    /\ UnlockPorts(t)
    /\ UNCHANGED <<next_handle, srvVars, cfgVars>>

\* ---- write_serial_data
CallWriteOn(t, ns) ==
    /\ \E n \in ns, d \in SeqsUpTo({65}, MaxLen) :
          Invoke(t, [NoCall EXCEPT !.op = "write", !.name = n, !.data = d], "write_lock")
    /\ UNCHANGED <<regVars, srvVars, cfgVars>>

CallWrite(t) == CallWriteOn(t, PortNames)

\* ports.get_mut(&port_name).ok_or_else(|| "Port not open")?
WriteGet(t) ==
    /\ pc[t] = "write_get"
    /\ IF get_mut(ports, call[t].name) # NoHandle
       THEN /\ port' = [port EXCEPT ![t] = get_mut(ports, call[t].name)]
            /\ Goto(t, "write_io")
            /\ UNCHANGED <<ports_lock, call, ret, written, child>>
       ELSE /\ Return(t, Err(NotOpen))
            /\ UnlockPorts(t)
    /\ UNCHANGED <<ports, os_handles, next_handle, io, srvVars, cfgVars>>

\* the byte counts one Write::write call may report for a buffer
accepted(bytes) == 0..Len(bytes)

\* port.write(bytes): one call; the OS takes some prefix of the buffer or fails
WriteIo(t) ==
    /\ pc[t] = "write_io"
    /\ \/ \E k \in accepted(call[t].data) :
             /\ Did(t, "write", "Ok", k)
             /\ written' = [written EXCEPT ![t] = k]
             /\ Goto(t, "write_flush")
             /\ UNCHANGED <<ports_lock, call, ret, port, child>>
       \/ /\ Did(t, "write", "Err", 0)
          /\ Return(t, Err(WriteError))
          /\ UnlockPorts(t)
    /\ UNCHANGED <<ports, os_handles, next_handle, srvVars, cfgVars>>

\* a flush whose failure is dropped
flush_result_ignored(ok, k) == OkCount(k)

\* port.flush().map_err(..)?; Ok(written)
flush_result(ok, k) == IF ok THEN OkCount(k) ELSE Err(FlushError)

\* port.flush()?; Ok(written)
WriteFlush(t) ==
    /\ pc[t] = "write_flush"
    /\ \E ok \in BOOLEAN :
          /\ Did(t, "flush", IF ok THEN "Ok" ELSE "Err", 0)
          /\ Return(t, flush_result(ok, written[t]))
    /\ UnlockPorts(t)
    /\ UNCHANGED <<ports, os_handles, next_handle, srvVars, cfgVars>>

\* ---- read_serial_data
CallReadOn(t, ns) ==
    /\ \E n \in ns, sz \in 0..MaxRead :
          Invoke(t, [NoCall EXCEPT !.op = "read", !.name = n, !.size = sz], "read_lock")
    /\ UNCHANGED <<regVars, srvVars, cfgVars>>

CallRead(t) == CallReadOn(t, PortNames)

ReadGet(t) ==
    /\ pc[t] = "read_get"
    /\ IF get_mut(ports, call[t].name) # NoHandle
       THEN /\ port' = [port EXCEPT ![t] = get_mut(ports, call[t].name)]
            /\ Goto(t, "read_io")
            /\ UNCHANGED <<ports_lock, call, ret, written, child>>
       ELSE /\ Return(t, Err(NotOpen))
            /\ UnlockPorts(t)
    /\ UNCHANGED <<ports, os_handles, next_handle, io, srvVars, cfgVars>>

\* a match without the TimedOut arm: every failed read is an error
read_result_strict(outcome, bytes) ==
    IF outcome = "Ok" THEN OkText(from_utf8_lossy(bytes)) ELSE Err(ReadError)

\* what the match on port.read(&mut buffer) returns for each outcome
read_result(outcome, bytes) ==
    CASE outcome = "Ok" -> OkText(from_utf8_lossy(bytes))
      [] outcome = "TimedOut" -> OkText(<<>>)
      [] OTHER -> Err(ReadError)

\* port.read(&mut buffer): bytes (at most buffer_size), a timeout, or another error
ReadIo(t) ==
    /\ pc[t] = "read_io"
    /\ \/ \E bs \in SeqsUpTo(Bytes, call[t].size) :
             /\ Did(t, "read", "Ok", Len(bs))
             /\ Return(t, read_result("Ok", bs))
       \/ \E e \in {"TimedOut", "Other"} :
             /\ Did(t, "read", e, 0)
             /\ Return(t, read_result(e, <<>>))
    /\ UnlockPorts(t)
    /\ UNCHANGED <<ports, os_handles, next_handle, srvVars, cfgVars>>

RegistryStep(t) ==
    \/ CallList(t) \/ ListOs(t)
    \/ CallOpen(t) \/ CallClose(t) \/ CallWrite(t) \/ CallRead(t)
    \/ LockPorts(t)
    \/ OpenCheck(t) \/ OpenOs(t) \/ OpenInsert(t)
    \/ CloseRemove(t)
    \/ WriteGet(t) \/ WriteIo(t) \/ WriteFlush(t)
    \/ ReadGet(t) \/ ReadIo(t)

NextRegistry == \E t \in UiThreads : RegistryStep(t)

\* serial.rs reads neither cfg value: the registry is explored under one build
InitRegistry == Init /\ target_os = "unix" /\ debug_assertions = FALSE

SpecRegistry == InitRegistry /\ [][NextRegistry]_vars

\* ---- open and close of one port alone, with every config a caller can send
ConfigThread == "ui1"
ConfigPorts == {"COM3"}

NextConfig ==
    \/ CallOpenWith(ConfigThread, ConfigPorts, Configs)
    \/ CallClose(ConfigThread)
    \/ LockPorts(ConfigThread)
    \/ OpenCheck(ConfigThread) \/ OpenOs(ConfigThread) \/ OpenInsert(ConfigThread)
    \/ CloseRemove(ConfigThread)

SpecConfig == InitRegistry /\ [][NextConfig]_vars

\* ================================================================ server.rs
\* The result strings of server.rs
AlreadyRunning == "Server is already running"
Started == "Server started successfully"
PathNotFound == "Server directory not found at"
ResolveError == "Failed to resolve directory"
SpawnError == "Failed to start server"
Stopped == "Server stopped successfully"
NotRunning == "Server was not running"
StopError == "Failed to stop server"

\* a record that always looks empty
is_some_never(p) == FALSE

is_some(p) == p # NoPid

\* stopping a stopped server reported as a failure
not_running_error == Err(NotRunning)

\* stop's else branch: Ok("Server was not running")
not_running_result == Ok(NotRunning)

\* Mutex::lock on ServerState.process, the first statement of start, stop and status
LockProcess(t) ==
    /\ pc[t] \in {"start_lock", "stop_lock", "status_lock"}
    /\ CanLock(process_lock)
    /\ process_lock' = t
    /\ Goto(t, CASE pc[t] = "start_lock" -> "start_check"
                 [] pc[t] = "stop_lock" -> "stop_take"
                 [] pc[t] = "status_lock" -> "status_read")
    /\ UNCHANGED <<process, alive, next_pid, taskkills, kills, dropped, regVars, cfgVars>>
    /\ UNCHANGED <<call, ret, io, port, written, child>>

UnlockProcess(t) == process_lock' = IF process_lock = t THEN NoThread ELSE process_lock

\* ---- start_backend_server -> start_backend_server_internal
CallStart(t) ==
    /\ Invoke(t, [NoCall EXCEPT !.op = "start"], "start_lock")
    /\ UNCHANGED <<regVars, srvVars, cfgVars>>

\* lib.rs: the task spawned in setup wakes from its sleep and calls
\* start_backend_server_internal, once
AutoStart ==
    /\ pc[AutoThread] = "sleep"
    /\ ~dropped
    /\ pc' = [pc EXCEPT ![AutoThread] = "start_lock"]
    /\ call' = [call EXCEPT ![AutoThread] = [NoCall EXCEPT !.op = "start"]]
    /\ UNCHANGED <<ret, io, port, written, child, regVars, srvVars, cfgVars>>

\* if process_lock.is_some() { return Ok("Server is already running") }
StartCheck(t) ==
    /\ pc[t] = "start_check"
    /\ IF is_some(process)
       THEN /\ Return(t, Ok(AlreadyRunning))
            /\ UnlockProcess(t)
       ELSE /\ Goto(t, "start_path")
            /\ UNCHANGED <<process_lock, call, ret, port, written, child>>
    /\ UNCHANGED <<process, alive, next_pid, taskkills, kills, dropped, io, regVars, cfgVars>>

\* get_server_path(&app_handle)?
\*   debug build: current_dir, then server_path.exists() or Err("Server directory not found ..")
\*   release build: resource_dir, no existence check
StartPath(t) ==
    /\ pc[t] = "start_path"
    /\ \/ /\ Did(t, IF debug_assertions THEN "current_dir" ELSE "resource_dir", "Err", 0)
          /\ Return(t, Err(ResolveError))
          /\ UnlockProcess(t)
       \/ /\ debug_assertions
          /\ \/ /\ io' = [io EXCEPT ![t] = @ \o <<<<"current_dir", "Ok", 0>>, <<"exists", "false", 0>>>>]
                /\ Return(t, Err(PathNotFound))
                /\ UnlockProcess(t)
             \/ /\ io' = [io EXCEPT ![t] = @ \o <<<<"current_dir", "Ok", 0>>, <<"exists", "true", 0>>>>]
                /\ Goto(t, "start_exists")
                /\ UNCHANGED <<process_lock, call, ret, port, written, child>>
       \/ /\ ~debug_assertions
          /\ Did(t, "resource_dir", "Ok", 0)
          /\ Goto(t, "start_exists")
          /\ UNCHANGED <<process_lock, call, ret, port, written, child>>
    /\ UNCHANGED <<process, alive, next_pid, taskkills, kills, dropped, regVars, cfgVars>>

\* a start that does not look at the directory
path_missing_never(e) == FALSE

\* the condition !server_path.exists()
path_missing(e) == ~e

\* if !server_path.exists() { return Err("Server directory not found ..") }
StartExists(t) ==
    /\ pc[t] = "start_exists"
    /\ \E e \in BOOLEAN :
          /\ Did(t, "exists", IF e THEN "true" ELSE "false", 0)
          /\ IF path_missing(e)
             THEN /\ Return(t, Err(PathNotFound))
                  /\ UnlockProcess(t)
             ELSE /\ Goto(t, "start_spawn")
                  /\ UNCHANGED <<process_lock, call, ret, port, written, child>>
    /\ UNCHANGED <<process, alive, next_pid, taskkills, kills, dropped, regVars, cfgVars>>

\* Command::new(..).spawn()?; *process_lock = Some(child); Ok(..)
StartSpawn(t) ==
    /\ pc[t] = "start_spawn"
    /\ \/ /\ next_pid < MaxSpawns
          /\ Did(t, "spawn", "Ok", next_pid + 1)
          /\ next_pid' = next_pid + 1
          /\ alive' = alive \cup {next_pid + 1}
          /\ process' = next_pid + 1
          /\ Return(t, Ok(Started))
       \/ /\ Did(t, "spawn", "Err", 0)
          /\ Return(t, Err(SpawnError))
          /\ UNCHANGED <<process, alive, next_pid>>
    /\ UnlockProcess(t)
    /\ UNCHANGED <<taskkills, kills, dropped, regVars, cfgVars>>

\* ---- stop_backend_server
CallStop(t) ==
    /\ Invoke(t, [NoCall EXCEPT !.op = "stop"], "stop_lock")
    /\ UNCHANGED <<regVars, srvVars, cfgVars>>

\* if let Some(child) = process.take() { .. } else { Ok("Server was not running") }
StopTake(t) ==
    /\ pc[t] = "stop_take"
    /\ IF is_some(process)
       THEN /\ child' = [child EXCEPT ![t] = process]
            /\ process' = NoPid
            /\ Goto(t, "stop_kill")
            /\ UNCHANGED <<process_lock, call, ret, port, written>>
       ELSE /\ Return(t, not_running_result)
            /\ UnlockProcess(t)
            /\ UNCHANGED process
    /\ UNCHANGED <<alive, next_pid, taskkills, kills, dropped, io, regVars, cfgVars>>

\* The termination attempt shared by stop and Drop.
\*   windows: let _ = Command::new("taskkill")..spawn();  the utility is started
\*            (or fails to start) and nobody waits for it
\*   others:  child.kill()  SIGKILL is delivered, or the call fails
\* `done` says whether the OS call succeeded.
Terminate(p, done) ==
    /\ kills' = [kills EXCEPT ![p] = @ + 1]
    /\ IF target_os = "windows"
       THEN /\ taskkills' = IF done THEN taskkills \cup {p} ELSE taskkills
            /\ UNCHANGED alive
       ELSE /\ alive' = IF done THEN alive \ {p} ELSE alive
            /\ UNCHANGED taskkills

\* a stop that swallows the kill failure, as Drop does
stop_result_swallow(os, done) == Ok(Stopped)

\* what stop returns once the termination attempt was made
stop_result(os, done) ==
    IF os = "windows" \/ done THEN Ok(Stopped) ELSE Err(StopError)

StopKill(t) ==
    /\ pc[t] = "stop_kill"
    /\ \E done \in BOOLEAN :
          /\ Did(t, IF target_os = "windows" THEN "taskkill" ELSE "kill",
                 IF done THEN "Ok" ELSE "Err", child[t])
          /\ Terminate(child[t], done)
          /\ Return(t, stop_result(target_os, done))
    /\ UnlockProcess(t)
    /\ UNCHANGED <<process, next_pid, dropped, regVars, cfgVars>>

\* ---- get_server_status
CallStatus(t) ==
    /\ Invoke(t, [NoCall EXCEPT !.op = "status"], "status_lock")
    /\ UNCHANGED <<regVars, srvVars, cfgVars>>

StatusRead(t) ==
    /\ pc[t] = "status_read"
    /\ Return(t, Ok(IF is_some(process) THEN "running" ELSE "stopped"))
    /\ UnlockProcess(t)
    /\ UNCHANGED <<process, alive, next_pid, taskkills, kills, dropped, io, regVars, cfgVars>>

\* ---- impl Drop for ServerState: runs once, when the application is torn
\* down and no handler holds the state any more. The lock is free, the record
\* is taken and one termination attempt is made; its outcome is discarded.
Drop ==
    /\ ~dropped
    /\ \A t \in Threads : pc[t] \in {"idle", "sleep"}
    /\ CanLock(process_lock)
    /\ dropped' = TRUE
    /\ process' = NoPid
    /\ IF is_some(process)
       THEN \E done \in BOOLEAN : Terminate(process, done)
       ELSE UNCHANGED <<alive, taskkills, kills>>
    /\ UNCHANGED <<process_lock, next_pid, regVars, cfgVars, thrVars>>

\* ---- the operating system
\* a taskkill utility started earlier finishes: it killed the tree, or it failed
TaskkillFinishes ==
    \E p \in taskkills, killed \in BOOLEAN :
        /\ taskkills' = taskkills \ {p}
        /\ alive' = IF killed THEN alive \ {p} ELSE alive
        /\ UNCHANGED <<process, process_lock, next_pid, kills, dropped, regVars, cfgVars, thrVars>>

\* the companion process ends on its own
ChildExits ==
    \E p \in alive :
        /\ alive' = alive \ {p}
        /\ UNCHANGED <<process, process_lock, next_pid, taskkills, kills, dropped>>
        /\ UNCHANGED <<regVars, cfgVars, thrVars>>

SupervisorStep(t) ==
    \/ LockProcess(t)
    \/ StartCheck(t) \/ StartPath(t) \/ StartExists(t) \/ StartSpawn(t)
    \/ StopTake(t) \/ StopKill(t)
    \/ StatusRead(t)

SupervisorCall(t) == CallStart(t) \/ CallStop(t) \/ CallStatus(t)

\* server.rs commands are synchronous tauri commands, which the command
\* surface runs one at a time; the deferred task of lib.rs runs beside them
SupervisorThreads == {"ui1", AutoThread}

NextSupervisor ==
    \/ \E t \in SupervisorThreads \ {AutoThread} : SupervisorCall(t)
    \/ \E t \in SupervisorThreads : SupervisorStep(t)
    \/ AutoStart
    \/ Drop
    \/ TaskkillFinishes
    \/ ChildExits

SpecSupervisor == Init /\ [][NextSupervisor]_vars

\* ---- the whole application
Next == NextRegistry \/ NextSupervisor

Spec == Init /\ [][Next]_vars

\* ---- two command threads opening, writing and closing one port
WriteStep(t) ==
    \/ CallOpenWith(t, ConfigPorts, {DefaultConfig})
    \/ CallCloseOn(t, ConfigPorts)
    \/ CallWriteOn(t, ConfigPorts)
    \/ LockPorts(t)
    \/ OpenCheck(t) \/ OpenOs(t) \/ OpenInsert(t)
    \/ CloseRemove(t)
    \/ WriteGet(t) \/ WriteIo(t) \/ WriteFlush(t)

NextWrite == \E t \in UiThreads : WriteStep(t)

SpecWrite == InitRegistry /\ [][NextWrite]_vars

\* ---- both managers side by side: the command thread issues the serial and
\* the server commands one after another, the deferred task starts the server
LockThread == "ui1"

\* the serial commands are issued for one port, with the default config
NextLocks ==
    \/ CallList(LockThread) \/ ListOs(LockThread)
    \/ CallOpenWith(LockThread, ConfigPorts, {DefaultConfig})
    \/ CallCloseOn(LockThread, ConfigPorts)
    \/ CallWriteOn(LockThread, ConfigPorts)
    \/ CallReadOn(LockThread, ConfigPorts)
    \/ LockPorts(LockThread)
    \/ OpenCheck(LockThread) \/ OpenOs(LockThread) \/ OpenInsert(LockThread)
    \/ CloseRemove(LockThread)
    \/ WriteGet(LockThread) \/ WriteIo(LockThread) \/ WriteFlush(LockThread)
    \/ ReadGet(LockThread) \/ ReadIo(LockThread)
    \/ SupervisorCall(LockThread)
    \/ SupervisorStep(LockThread)
    \/ SupervisorStep(AutoThread)
    \/ AutoStart
    \/ Drop

SpecLocks == InitRegistry /\ [][NextLocks]_vars

\* =================================================================== claims
\* the sessions registered under a name, and the OS handles open for it
Sessions(n) == {e \in ports : e[1] = n}
Handles(n) == {h \in os_handles : h[2] = n}
Registered(n) == Sessions(n) # {}
Stepped(t, at) == pc[t] = at /\ pc'[t] # at

\* C1: in every reachable state, under every interleaving of open, close,
\* read and write, each port name has at most one registered session and at
\* most one OS serial handle open for the registry.
C1_OneSessionPerName ==
    \A n \in PortNames :
        /\ Cardinality(Sessions(n)) <= 1
        /\ Cardinality(Handles(n)) <= 1

\* a second open of a registered name is under way while the first session stands
C1_Witness ==
    \E n \in PortNames, t1, t2 \in UiThreads :
        /\ t1 # t2
        /\ call[t1].op = "open" /\ call[t1].name = n /\ ret[t1].kind = "Ok"
        /\ Cardinality(Sessions(n)) = 1 /\ Cardinality(Handles(n)) = 1
        /\ call[t2].op = "open" /\ call[t2].name = n /\ pc[t2] = "open_check"

\* C2: open(p) while p is registered fails with DuplicateSession, makes no
\* OS open attempt and leaves the registry, p's session included, unchanged.
C2_DuplicateOpenRejected ==
    [][\A t \in UiThreads :
          (Stepped(t, "open_check") /\ Registered(call[t].name)) =>
              /\ pc'[t] = "idle"
              /\ ret'[t] = Err(DuplicateSession)
              /\ io'[t] = <<>>
              /\ ports' = ports
              /\ os_handles' = os_handles
              /\ next_handle' = next_handle]_vars

C2_Witness ==
    \E n \in PortNames, t \in UiThreads :
        /\ pc[t] = "idle" /\ call[t].op = "open" /\ call[t].name = n
        /\ ret[t] = Err(DuplicateSession)
        /\ io[t] = <<>>
        /\ Registered(n)

\* C3: after any sequence of start, stop and status calls, stops whose kill
\* fails or is not verified included, at most one companion process spawned
\* by the supervisor is alive.
C3_AtMostOneAlive == Cardinality(alive) <= 1

\* C4: start while Running returns success at once with no side effect: no
\* path resolution, no directory check, no spawn, the record unchanged; a
\* second start after a successful one leaves exactly one process spawned.
C4_StartWhileRunningIsNoOp ==
    [][\A t \in Threads :
          (Stepped(t, "start_check") /\ process # NoPid) =>
              /\ pc'[t] = "idle"
              /\ ret'[t] = Ok(AlreadyRunning)
              /\ io'[t] = <<>>
              /\ process' = process
              /\ alive' = alive
              /\ next_pid' = next_pid]_vars

\* two starts returned success and one process was spawned, which is alive
C4_Witness ==
    \E t1, t2 \in Threads :
        /\ t1 # t2
        /\ pc[t1] = "idle" /\ call[t1].op = "start" /\ ret[t1] = Ok(Started)
        /\ pc[t2] = "idle" /\ call[t2].op = "start" /\ ret[t2] = Ok(AlreadyRunning)
        /\ io[t2] = <<>>
        /\ next_pid = 1 /\ alive = {1} /\ process = 1

\* C5: stop while Stopped returns success, never an error, issues no kill
\* and no tree-kill, and leaves the state Stopped.
C5_StopWhileStoppedIsNoOp ==
    [][\A t \in Threads :
          (Stepped(t, "stop_take") /\ process = NoPid) =>
              /\ pc'[t] = "idle"
              /\ ret'[t] = Ok(NotRunning)
              /\ io'[t] = <<>>
              /\ kills' = kills
              /\ taskkills' = taskkills
              /\ alive' = alive
              /\ process' = NoPid]_vars

C5_Witness ==
    \E t \in UiThreads :
        /\ pc[t] = "idle" /\ call[t].op = "stop" /\ ret[t] = Ok(NotRunning)
        /\ io[t] = <<>>
        /\ process = NoPid
        /\ \A p \in 1..MaxSpawns : kills[p] = 0

\* C6: if the supervisor is Running when teardown runs, then after teardown
\* no companion process spawned by the supervisor is alive; teardown raises
\* no error and issues its termination attempt at most once.
C6_TeardownLeavesNoProcess ==
    [][(~dropped /\ dropped' /\ process # NoPid) =>
          /\ alive' = {}
          /\ process' = NoPid
          /\ kills'[process] = kills[process] + 1
          /\ \A p \in 1..MaxSpawns : p # process => kills'[p] = kills[p]]_vars

\* C7: close(name) on a registered name removes exactly that session and
\* releases its handle, leaves every other session untouched and returns
\* success; on an unregistered name it fails with NotFound and leaves the
\* registry unchanged. Once name is closed, open(name) is not rejected as a
\* duplicate but goes on to the OS.
C7_CloseRemovesExactlyOne ==
    [][\A t \in UiThreads :
          /\ (Stepped(t, "close_remove") /\ Registered(call[t].name)) =>
                /\ ports' = ports \ Sessions(call[t].name)
                /\ os_handles' = os_handles \ Handles(call[t].name)
                /\ ret'[t] = Ok("closed successfully")
                /\ pc'[t] = "idle"
          /\ (Stepped(t, "close_remove") /\ ~Registered(call[t].name)) =>
                /\ ports' = ports
                /\ os_handles' = os_handles
                /\ ret'[t] = Err(NotFound)
                /\ pc'[t] = "idle"
          /\ (Stepped(t, "open_check") /\ ~Registered(call[t].name)) =>
                /\ pc'[t] = "open_os"
                /\ ret'[t] = Pending]_vars

\* a name was closed and then opened again, while the other session stayed
C7_Witness ==
    \E n, m \in PortNames, t1, t2 \in UiThreads :
        /\ n # m /\ t1 # t2
        /\ pc[t1] = "idle" /\ call[t1].op = "close" /\ call[t1].name = n
        /\ ret[t1] = Ok("closed successfully")
        /\ pc[t2] = "idle" /\ call[t2].op = "open" /\ call[t2].name = n
        /\ ret[t2] = Ok("opened successfully")
        /\ Registered(n)

\* C8: read and write on a name that is not registered fail with NotOpen,
\* perform no OS I/O and leave the registry unchanged; and whenever a read,
\* write or flush is about to reach the OS, the handle it uses is the open
\* handle registered under that name, however close interleaves.
C8_NoIoWithoutSession ==
    /\ [](\A t \in UiThreads :
            pc[t] \in {"write_io", "write_flush", "read_io"} =>
                /\ <<port[t], call[t].name>> \in os_handles
                /\ <<call[t].name, port[t]>> \in ports)
    /\ [][\A t \in UiThreads :
            ((Stepped(t, "write_get") \/ Stepped(t, "read_get")) /\ ~Registered(call[t].name)) =>
                /\ pc'[t] = "idle"
                /\ ret'[t] = Err(NotOpen)
                /\ io'[t] = <<>>
                /\ ports' = ports
                /\ os_handles' = os_handles]_vars

\* a read on a name closed since its open was refused, with no I/O
C8_Witness ==
    \E n \in PortNames, t1, t2 \in UiThreads :
        /\ t1 # t2
        /\ pc[t1] = "idle" /\ call[t1].op = "close" /\ call[t1].name = n
        /\ ret[t1].kind = "Ok"
        /\ pc[t2] = "idle" /\ call[t2].op = "read" /\ call[t2].name = n
        /\ ret[t2] = Err(NotOpen) /\ io[t2] = <<>>
        /\ ~Registered(n)
        /\ next_handle > 0

\* C9: a read on an open port whose timeout elapses with no byte available
\* returns the empty text as a success and leaves the session registered;
\* any other failure of the OS read returns ReadError.
C9_TimeoutIsEmptySuccess ==
    [][\A t \in UiThreads :
          Stepped(t, "read_io") =>
              LET o == io'[t][Len(io'[t])] IN
              /\ o[1] = "read"
              /\ (o[2] = "TimedOut" => ret'[t] = OkText(<<>>))
              /\ (o[2] = "Other" => ret'[t] = Err(ReadError))
              /\ ports' = ports
              /\ os_handles' = os_handles]_vars

C9_Witness ==
    \E t \in UiThreads :
        /\ pc[t] = "idle" /\ call[t].op = "read"
        /\ io[t] = <<<<"read", "TimedOut", 0>>>>
        /\ ret[t] = OkText(<<>>)
        /\ Registered(call[t].name)

\* C10: whenever write(name, data) returns success, every byte of data was
\* handed to the transport and the returned count equals len(data).
C10_WriteReturnsFullLength ==
    \A t \in UiThreads :
        (pc[t] = "idle" /\ call[t].op = "write" /\ ret[t].kind = "Ok") =>
            ret[t].n = Len(call[t].data)

\* C11: open's config translation is total and deterministic: parity
\* none/odd/even map to themselves and every other string to none; stop_bits
\* 1 and 2 map to themselves and every other value to 1; data_bits 5..8 map
\* to themselves and every other value to 8; no config value makes open fail
\* in translation (open fails only as a duplicate or at the OS).
C11_ConfigFallbacks ==
    \A t \in UiThreads :
        /\ (call[t].op = "open" /\ io[t] # <<>>) =>
              LET c == call[t].config
                  o == io[t][1]
              IN /\ o[1] = "open"
                 /\ o[4].parity = (IF c.parity \in {"none", "odd", "even"} THEN c.parity ELSE "none")
                 /\ o[4].stop_bits = (IF c.stop_bits \in {1, 2} THEN c.stop_bits ELSE 1)
                 /\ o[4].data_bits = (IF c.data_bits \in {5, 6, 7, 8} THEN c.data_bits ELSE 8)
        /\ (call[t].op = "open" /\ pc[t] = "idle" /\ ret[t].kind = "Err") =>
              \/ ret[t].msg = DuplicateSession /\ io[t] = <<>>
              \/ ret[t].msg = OpenError /\ Len(io[t]) = 1 /\ io[t][1][2] = "Err"

\* the spec's example: parity "xyz", stop_bits 3, data_bits 9 opened as none, 1, 8
C11_Witness ==
    \E t \in UiThreads :
        /\ pc[t] = "idle" /\ call[t].op = "open" /\ ret[t].kind = "Ok"
        /\ call[t].config = [parity |-> "xyz", stop_bits |-> 3, data_bits |-> 9]
        /\ Len(io[t]) = 1
        /\ io[t][1][4] = [parity |-> "none", stop_bits |-> 1, data_bits |-> 8]

\* C12: status is a pure read: it changes nothing of the supervisor, never
\* fails, and returns running exactly when a process record is stored, so
\* running after a successful start and stopped after a stop.
C12_StatusIsPureRead ==
    [][\A t \in Threads :
          Stepped(t, "status_read") =>
              /\ pc'[t] = "idle"
              /\ ret'[t] = Ok(IF process # NoPid THEN "running" ELSE "stopped")
              /\ io'[t] = <<>>
              /\ process' = process
              /\ alive' = alive
              /\ next_pid' = next_pid
              /\ taskkills' = taskkills
              /\ kills' = kills
              /\ dropped' = dropped]_vars

\* the automatic start succeeded and status then answered running
C12_Witness ==
    \E t \in UiThreads :
        /\ pc[t] = "idle" /\ call[t].op = "status" /\ ret[t] = Ok("running")
        /\ pc[AutoThread] = "idle" /\ ret[AutoThread] = Ok(Started)
        /\ process = 1 /\ next_pid = 1

\* where a thread stands inside a handler's body, and where it waits for the mutex
LockedBody == {"open_check", "open_os", "open_insert", "close_remove",
               "write_get", "write_io", "write_flush", "read_get", "read_io"}
AnyBody == LockedBody \cup {"list_os"}
WaitsForPorts == {"open_lock", "close_lock", "write_lock", "read_lock"}

\* C13 as stated: list, open, close, read and write all serialize through
\* the registry lock, so no two of the five ever execute at the same time.
C13_AllFiveSerialize ==
    \A t1, t2 \in UiThreads :
        (t1 # t2 /\ pc[t1] \in AnyBody) => pc[t2] \notin AnyBody

\* C13 amended: open, close, read and write serialize through the registry
\* lock: at most one of them is inside its body, it is the lock holder, and
\* while a read is blocking in the OS no open, close, write or read waiting
\* for the lock moves, whatever port it names. (list takes no lock.)
C13_FourSerialize ==
    /\ [](\A t1, t2 \in UiThreads :
            /\ pc[t1] \in LockedBody => ports_lock = t1
            /\ (t1 # t2 /\ pc[t1] \in LockedBody) => pc[t2] \notin LockedBody)
    /\ [][\A t, u \in UiThreads :
            (pc[t] = "read_io" /\ pc'[t] = "read_io" /\ pc[u] \in WaitsForPorts) =>
                pc'[u] = pc[u]]_vars

\* a read on one port is in the OS while a write to the other port waits
C13_Witness ==
    \E t, u \in UiThreads :
        /\ pc[t] = "read_io" /\ pc[u] = "write_lock"
        /\ call[t].name # call[u].name
        /\ ports_lock = t

\* C14: stop called while Running leaves the supervisor Stopped when it
\* returns, whether the kill was confirmed, unverified or failed; with the
\* direct kill a failure is returned as StopError while the record is cleared
\* all the same, and with the tree kill stop from Running returns success.
C14_StopAlwaysClears ==
    [][\A t \in Threads :
          /\ (Stepped(t, "stop_take") /\ process # NoPid) =>
                /\ process' = NoPid
                /\ child'[t] = process
                /\ pc'[t] = "stop_kill"
          /\ Stepped(t, "stop_kill") =>
                LET o == io'[t][Len(io'[t])] IN
                /\ pc'[t] = "idle"
                /\ process' = NoPid
                /\ kills'[child[t]] = kills[child[t]] + 1
                /\ target_os = "windows" => (o[1] = "taskkill" /\ ret'[t] = Ok(Stopped))
                /\ (target_os # "windows" /\ o[2] = "Err") => (o[1] = "kill" /\ ret'[t] = Err(StopError))
                /\ (target_os # "windows" /\ o[2] = "Ok") => (o[1] = "kill" /\ ret'[t] = Ok(Stopped))]_vars

\* a direct kill failed: StopError, the record cleared, the process still running
C14_Witness ==
    \E t \in UiThreads :
        /\ pc[t] = "idle" /\ call[t].op = "stop" /\ ret[t] = Err(StopError)
        /\ target_os = "unix"
        /\ process = NoPid
        /\ alive # {}

StartBody == {"start_check", "start_path", "start_exists", "start_spawn"}
Last(q) == q[Len(q)]

\* C15: a start from Stopped that fails (directory absent: PathNotFound;
\* spawn failure: SpawnError) stores no record, leaves the state Stopped and
\* is not retried; the directory check comes before the spawn, so nothing is
\* spawned when the directory is absent; only a successful spawn moves the
\* state to Running.
C15_FailedStartStoresNothing ==
    [][/\ \A t \in Threads :
            /\ (pc[t] \in StartBody /\ pc'[t] = "idle" /\ ret'[t].kind = "Err") =>
                  /\ process = NoPid /\ process' = NoPid
                  /\ alive' = alive
                  /\ next_pid' = next_pid
                  /\ ret'[t].msg \in {PathNotFound, SpawnError, ResolveError}
                  /\ ret'[t].msg = PathNotFound =>
                        /\ Last(io'[t]) = <<"exists", "false", 0>>
                        /\ \A i \in 1..Len(io'[t]) : io'[t][i][1] # "spawn"
                  /\ ret'[t].msg = SpawnError => Last(io'[t]) = <<"spawn", "Err", 0>>
                  /\ Cardinality({i \in 1..Len(io'[t]) : io'[t][i][1] = "spawn"}) <= 1
            /\ Stepped(t, "start_spawn") => Last(io[t]) = <<"exists", "true", 0>>
       /\ (process = NoPid /\ process' # NoPid) =>
            \E t \in Threads :
                /\ Stepped(t, "start_spawn")
                /\ ret'[t] = Ok(Started)
                /\ Last(io'[t]) = <<"spawn", "Ok", process'>>
                /\ process' \in alive']_vars

\* a start failed at the spawn and one failed at the directory, nothing stored
C15_Witness ==
    \E t1, t2 \in Threads :
        /\ pc[t1] = "idle" /\ call[t1].op = "start" /\ ret[t1] = Err(SpawnError)
        /\ pc[t2] = "idle" /\ call[t2].op = "start" /\ ret[t2] = Err(PathNotFound)
        /\ process = NoPid /\ next_pid = 0 /\ alive = {}

\* C16: an open whose OS-level open fails returns OpenError and inserts
\* nothing: the registry is unchanged and the name stays unregistered, so a
\* later open of it goes to the OS again; a session is inserted only after
\* the OS open succeeded.
C16_FailedOpenInsertsNothing ==
    [][\A t \in UiThreads :
          /\ (Stepped(t, "open_os") /\ pc'[t] = "idle") =>
                /\ ret'[t] = Err(OpenError)
                /\ Last(io'[t])[1] = "open" /\ Last(io'[t])[2] = "Err"
                /\ ports' = ports
                /\ os_handles' = os_handles
                /\ ~Registered(call[t].name)
                /\ ports_lock' = NoThread
          /\ (Stepped(t, "open_os") /\ pc'[t] # "idle") =>
                /\ pc'[t] = "open_insert"
                /\ ports' = ports
                /\ Last(io'[t])[2] = "Ok"
                /\ <<port'[t], call[t].name>> \in os_handles'
          /\ Stepped(t, "open_insert") =>
                /\ Last(io[t]) [2] = "Ok" /\ Last(io[t])[3] = port[t]
                /\ ports' = ports \cup {<<call[t].name, port[t]>>}
                /\ <<call[t].name, port[t]>> \notin ports
                /\ ret'[t] = Ok("opened successfully")
          /\ (pc'[t] = pc[t] \/ ~Stepped(t, "open_insert")) =>
                (\A e \in ports' \ ports : \E u \in UiThreads : Stepped(u, "open_insert"))]_vars

\* an open failed at the OS and a later open of the same name went through
C16_Witness ==
    \E n \in PortNames, t1, t2 \in UiThreads :
        /\ t1 # t2
        /\ pc[t1] = "idle" /\ call[t1].op = "open" /\ call[t1].name = n
        /\ ret[t1] = Err(OpenError)
        /\ pc[t2] = "idle" /\ call[t2].op = "open" /\ call[t2].name = n
        /\ ret[t2] = Ok("opened successfully")
        /\ Registered(n)

\* the two OS-level failures of the write path, the spec's WriteError
WriteErrors == {WriteError, FlushError}

\* C17: a write on an open port does the OS write first and the flush
\* second and returns success only after the flush succeeded; a failed
\* write is not followed by a flush, a failed flush returns a write error
\* although bytes were already accepted; the session stays registered.
C17_WriteThenFlush ==
    [][\A t \in UiThreads :
          /\ (Stepped(t, "write_io") /\ pc'[t] = "idle") =>
                /\ ret'[t] = Err(WriteError)
                /\ io'[t] = <<(<<"write", "Err", 0>>)>>
          /\ (Stepped(t, "write_io") /\ pc'[t] # "idle") =>
                /\ pc'[t] = "write_flush"
                /\ ret'[t] = Pending
                /\ io'[t] = <<(<<"write", "Ok", written'[t]>>)>>
          /\ Stepped(t, "write_flush") =>
                /\ io[t] = <<(<<"write", "Ok", written[t]>>)>>
                /\ Len(io'[t]) = 2 /\ io'[t][1] = io[t][1]
                /\ io'[t][2][1] = "flush"
                /\ pc'[t] = "idle"
                /\ io'[t][2][2] = "Ok" => ret'[t] = OkCount(written[t])
                /\ io'[t][2][2] # "Ok" =>
                      ret'[t].kind = "Err" /\ ret'[t].msg \in WriteErrors
          /\ (call[t].op = "write" /\ ret[t] = Pending /\ ret'[t].kind = "Ok") =>
                /\ Stepped(t, "write_flush")
                /\ Last(io'[t]) = <<"flush", "Ok", 0>>
          /\ (pc[t] \in {"write_io", "write_flush"} /\ pc'[t] # pc[t]) =>
                /\ ports' = ports
                /\ <<call[t].name, port[t]>> \in ports'
                /\ ports_lock = t
                /\ pc'[t] = "idle" => ports_lock' = NoThread]_vars

\* a write accepted bytes, its flush failed, and the port is still open
C17_Witness ==
    \E t \in UiThreads :
        /\ pc[t] = "idle" /\ call[t].op = "write"
        /\ ret[t] = Err(FlushError)
        /\ Len(io[t]) = 2
        /\ io[t][1] = <<"write", "Ok", Len(call[t].data)>>
        /\ Len(call[t].data) > 0
        /\ io[t][2] = <<"flush", "Err", 0>>
        /\ Registered(call[t].name)

\* where a thread stands inside a supervisor handler's body
SupervisorBody == StartBody \cup {"stop_take", "stop_kill", "status_read"}
PastCheck == {"start_path", "start_exists", "start_spawn"}

\* C19: when the deferred automatic start races with a user-issued start
\* from Stopped, the Running check and the spawn happen atomically under the
\* supervisor lock: at most one of them spawns a process and every other one
\* returns the already-running success.
C19_RacingStartsSpawnOnce ==
    /\ [](\A t \in Threads :
            /\ pc[t] \in SupervisorBody =>
                  /\ process_lock = t
                  /\ \A u \in Threads \ {t} : pc[u] \notin SupervisorBody
            /\ pc[t] \in PastCheck => process = NoPid)
    /\ [][\A t \in Threads :
            /\ (Stepped(t, "start_spawn") /\ ret'[t] = Ok(Started)) =>
                  /\ process = NoPid
                  /\ process' = next_pid'
                  /\ next_pid' = next_pid + 1
                  /\ \A u \in Threads \ {t} :
                        /\ pc'[u] = pc[u]
                        /\ pc[u] \notin SupervisorBody
                        /\ io'[u] = io[u]
            /\ (Stepped(t, "start_check") /\ process # NoPid) =>
                  /\ ret'[t] = Ok(AlreadyRunning)
                  /\ io'[t] = <<>>
                  /\ next_pid' = next_pid
            /\ next_pid' # next_pid =>
                  \E u \in Threads : Stepped(u, "start_spawn") /\ process = NoPid]_vars

\* both starts are in flight from Stopped: one is past the check and about
\* to spawn, the other waits for the lock
C19_Witness ==
    /\ pc[AutoThread] = "start_spawn"
    /\ \E t \in UiThreads : pc[t] = "start_lock" /\ call[t].op = "start"
    /\ process = NoPid /\ next_pid = 0

\* the stored child has ended without stop or teardown having acted on it
ExitedOnItsOwn ==
    /\ process # NoPid
    /\ process \notin alive
    /\ process \notin taskkills
    /\ kills[process] = 0

\* C20: the supervisor goes from Running to Stopped only through stop or
\* teardown: when the companion process exits on its own the record is kept,
\* status keeps returning running and start keeps being a no-op.
C20_OnlyStopClearsRecord ==
    [][/\ (process # NoPid /\ process' # process) =>
             /\ process' = NoPid
             /\ \/ \E t \in Threads : Stepped(t, "stop_take")
                \/ ~dropped /\ dropped'
       /\ (process # NoPid /\ process \in alive /\ process \notin alive'
             /\ kills' = kills /\ taskkills' = taskkills /\ dropped' = dropped) =>
             /\ process' = process
             /\ ExitedOnItsOwn'
       /\ \A t \in Threads :
             /\ (Stepped(t, "status_read") /\ ExitedOnItsOwn) =>
                   ret'[t] = Ok("running") /\ process' = process
             /\ (Stepped(t, "start_check") /\ ExitedOnItsOwn) =>
                   /\ ret'[t] = Ok(AlreadyRunning)
                   /\ io'[t] = <<>>
                   /\ process' = process
                   /\ alive' = alive
                   /\ next_pid' = next_pid]_vars

\* the child is gone, nothing killed it, and a start is refused as already
\* running while a status call is about to read the record
C20_Witness ==
    /\ ExitedOnItsOwn
    /\ alive = {}
    /\ pc[AutoThread] = "idle" /\ ret[AutoThread] = Ok(AlreadyRunning)
    /\ \E t \in UiThreads : pc[t] = "status_read"

LockedHolders == Threads \cup {NoThread}

\* C18: the registry lock and the supervisor lock are never held at the same
\* time by one operation, and every operation releases its lock on every
\* return path; so no interleaving of registry and supervisor operations
\* deadlocks, and a failed operation never keeps a later one from the lock.
C18_LocksNeverNestAndAlwaysRelease ==
    /\ [](/\ \A t \in Threads :
               /\ ~(ports_lock = t /\ process_lock = t)
               /\ ports_lock = t <=> pc[t] \in LockedBody
               /\ process_lock = t <=> pc[t] \in SupervisorBody
               /\ pc[t] \in {"idle", "sleep"} => ports_lock # t /\ process_lock # t
               /\ pc[t] \in LockedBody \cup SupervisorBody =>
                     ENABLED (RegistryStep(t) \/ SupervisorStep(t))
               /\ (pc[t] \in WaitsForPorts /\ ports_lock = NoThread) =>
                     ENABLED LockPorts(t)
               /\ (pc[t] \in {"start_lock", "stop_lock", "status_lock"}
                     /\ process_lock = NoThread) => ENABLED LockProcess(t)
          /\ ports_lock \in LockedHolders
          /\ process_lock \in LockedHolders)
    /\ [][\A t \in Threads :
            (pc[t] \in LockedBody \cup SupervisorBody /\ pc'[t] = "idle") =>
                /\ ret'[t] # Pending
                /\ ports_lock' # t /\ process_lock' # t
                /\ pc[t] \in LockedBody => ports_lock' = NoThread
                /\ pc[t] \in SupervisorBody => process_lock' = NoThread]_vars

\* a serial open and the automatic start are both inside their critical
\* sections, each under its own lock
C18_Witness ==
    /\ ports_lock = LockThread /\ pc[LockThread] = "open_os"
    /\ process_lock = AutoThread /\ pc[AutoThread] = "start_spawn"

====
